---- MODULE Spec2Model ----
(***************************************************************************)
(* Model of the Heimdall geyser plugin (core/src/heimdall_plugin.rs): the  *)
(* ingestion path update_account -> update_user_sol_balance /              *)
(* update_user_token_holding / update_listing against the Postgres store,  *)
(* and of the store reads of the stream service (stream/src/main.rs).      *)
(*                                                                         *)
(* update_account takes &self and blocks on each store round trip, so the  *)
(* host may run several invocations at once; each round trip (one SQL      *)
(* statement, atomic in the store) is one step of the invoking thread.     *)
(***************************************************************************)
EXTENDS Integers, Sequences, FiniteSets, TLC

\* ------------------------------------------------------------------ bounds
\* Invocations of update_account the host makes in one run.
MaxEvents == 2
\* Store round trips (or row decodings) that fail in one run.
MaxFaults == 1
\* Longest token_holdings array given to the merge step on its own.
MaxHoldings == 3
\* Most entries of Heimdall.programs in a run with repeated on_load.
MaxPrograms == 4

\* --------------------------------------------------------- program constants
\* The discriminator prefix skipped before AnchorListing::deserialize.
DiscLen == 8
\* spl_token::state::Account::LEN, the only length TokenAccount::unpack accepts.
TokenAccountLen == 165
\* A public key is 32 bytes.
KeyLen == 32

\* ------------------------------------------------------------- byte helpers
Rep(b, n) == [i \in 1..n |-> b]

Drop(buf, n) == SubSeq(buf, n + 1, Len(buf))

Take(buf, n) == SubSeq(buf, 1, n)

\* ------------------------------------------------------------------- keys
\* The public keys of the runs, by the name that stands for their base-58 text.
\* "spl" is spl_token::ID (TokenkegQfeZyiNwAJbNbGKPFXCWuBvf9Ss623VQ5DA); "sys" is
\* the system program; u1, u2 are the tracked users; p1 is a tracked program;
\* a1 is an account on no watch-list; m1, m2, m3 are mints; "mx" is the key
\* that AnchorListing.mint takes when a token account of mint m3 owned by u1
\* is read as a listing.
SplTokenId ==
  << 6, 221, 246, 225, 215, 101, 161, 147, 217, 203, 225, 70, 206, 235, 121, 172,
     28, 180, 133, 237, 95, 91, 55, 145, 58, 140, 245, 133, 126, 255, 0, 169 >>

KeyNames == {"sys", "spl", "u1", "u2", "a1", "p1", "m1", "m2", "m3", "mx"}

KeyBytes(name) ==
  CASE name = "sys" -> Rep(0, KeyLen)
    [] name = "spl" -> SplTokenId
    [] name = "u1"  -> Rep(1, KeyLen)
    [] name = "u2"  -> Rep(2, KeyLen)
    [] name = "a1"  -> Rep(3, KeyLen)
    [] name = "p1"  -> Rep(4, KeyLen)
    [] name = "m1"  -> Rep(5, KeyLen)
    [] name = "m2"  -> Rep(6, KeyLen)
    [] name = "m3"  -> Rep(7, 8) \o Rep(0, 4) \o Rep(7, 20)
    [] name = "mx"  -> Rep(7, 12) \o Rep(1, 20)

\* bs58::encode(key).into_string(): one text per key.
Bs58(key) ==
  IF \E n \in KeyNames : KeyBytes(n) = key
    THEN CHOOSE n \in KeyNames : KeyBytes(n) = key
    ELSE "unknown"

\* ---------------------------------------------------------------- decoding
\* A little-endian unsigned integer, exact below 2^24; a value with a higher
\* byte set is reported as 2^24, which exceeds every buffer length and every
\* token amount of the runs.
LeValue(b) ==
  IF \E i \in 4..Len(b) : b[i] # 0
    THEN 16777216
    ELSE b[1] + 256 * b[2] + 65536 * b[3]

\* u64::from_le_bytes, as four 16-bit limbs, least significant first.
U64Limbs(b) == [k \in 1..4 |-> b[2 * k - 1] + 256 * b[2 * k]]

\* `x as i64` of a u64: the same 64 bits read in two's complement, so the
\* value is hi * 2^48 + lo with the top limb hi taken as signed.
AsI64(u) ==
  [lo |-> <<u[1], u[2], u[3]>>,
   hi |-> IF u[4] >= 32768 THEN u[4] - 65536 ELSE u[4]]

\* A plausible slip: a checked conversion that yields 0 for a negative value.
AsU64Saturating(i) ==
  IF i.hi < 0 THEN <<0, 0, 0, 0>> ELSE <<i.lo[1], i.lo[2], i.lo[3], i.hi>>

\* `x as u64` of an i64: the value modulo 2^64, as limbs.
AsU64(i) == <<i.lo[1], i.lo[2], i.lo[3], i.hi % 65536>>

\* `x as i16` of a u8: the value itself, which a 16-bit signed integer holds.
AsI16(b) == IF b >= 32768 THEN b - 65536 ELSE b

\* `x as u32` of an i16: the value modulo 2^32 (sign-extended), as two limbs.
AsU32(v) == [lo |-> v % 65536, hi |-> IF v < 0 THEN 65535 ELSE 0]

IsUtf8(bytes) == \A i \in 1..Len(bytes) : bytes[i] < 128

DecodeErr == [ok |-> FALSE]

\* The widths of the fields of AnchorListing after name, in declared order:
\* seed, mint, funding_goal, pool_mint_supply, funding_raised,
\* available_tokens, base_price, tokens_sold, bump, vault_bump, mint_bump.
ListingFieldNames ==
  << "seed", "mint", "funding_goal", "pool_mint_supply", "funding_raised",
     "available_tokens", "base_price", "tokens_sold", "bump", "vault_bump",
     "mint_bump" >>

ListingFieldWidth ==
  [seed |-> 8, mint |-> 32, funding_goal |-> 8, pool_mint_supply |-> 16,
   funding_raised |-> 8, available_tokens |-> 16, base_price |-> 8,
   tokens_sold |-> 16, bump |-> 1, vault_bump |-> 1, mint_bump |-> 1]

RECURSIVE FixedWidth(_)
FixedWidth(k) ==
  IF k = 0 THEN 0 ELSE ListingFieldWidth[ListingFieldNames[k]] + FixedWidth(k - 1)

\* Offset (0-based) of fixed field k within the bytes that follow name.
FieldOffset(k) == FixedWidth(k - 1)

\* AnchorListing::deserialize(&mut buf): borsh reads a u32 length and that
\* many UTF-8 bytes for name, then every fixed-width field in order; a short
\* read or invalid UTF-8 is an Err. Bytes left over in buf are not an error:
\* deserialize only advances the slice. Fields are kept as their raw
\* little-endian bytes; rest is what remains of the slice.
AnchorListingDeserialize(buf) ==
  IF Len(buf) < 4 THEN DecodeErr
  ELSE
    LET n == LeValue(Take(buf, 4))
        fixed == FixedWidth(Len(ListingFieldNames))
    IN IF Len(buf) < 4 + n THEN DecodeErr
       ELSE IF ~IsUtf8(SubSeq(buf, 5, 4 + n)) THEN DecodeErr
       ELSE IF Len(buf) < 4 + n + fixed THEN DecodeErr
       ELSE
         LET body == Drop(buf, 4 + n)
             f(k) == SubSeq(body, FieldOffset(k) + 1,
                            FieldOffset(k) + ListingFieldWidth[ListingFieldNames[k]])
         IN [ok |-> TRUE,
             name |-> SubSeq(buf, 5, 4 + n),
             seed |-> f(1), mint |-> f(2), funding_goal |-> f(3),
             pool_mint_supply |-> f(4), funding_raised |-> f(5),
             available_tokens |-> f(6), base_price |-> f(7),
             tokens_sold |-> f(8), bump |-> f(9), vault_bump |-> f(10),
             mint_bump |-> f(11),
             rest |-> Drop(buf, 4 + n + fixed)]

\* The decode of the listing branch: only a payload longer than the
\* discriminator is decoded, from the byte after the discriminator on.
DecodeListing(data) ==
  IF Len(data) > DiscLen THEN AnchorListingDeserialize(Drop(data, DiscLen))
  ELSE DecodeErr

\* A COption tag of the token account layout is 0 (None) or 1 (Some).
COptionTagOk(data, at) ==
  SubSeq(data, at + 1, at + 4) \in {<<0, 0, 0, 0>>, <<1, 0, 0, 0>>}

\* TokenAccount::unpack(data): the slice must be exactly Account::LEN bytes
\* (mint 0..32, owner 32..64, amount 64..72, delegate 72..108, state 108,
\* is_native 109..121, delegated_amount 121..129, close_authority 129..165),
\* its COption tags and state byte valid, and the account initialized.
TokenAccountUnpack(data) ==
  IF Len(data) # TokenAccountLen THEN DecodeErr
  ELSE IF ~(COptionTagOk(data, 72) /\ COptionTagOk(data, 109) /\ COptionTagOk(data, 129))
    THEN DecodeErr
  ELSE IF data[109] \notin {1, 2} THEN DecodeErr
  ELSE [ok |-> TRUE,
        mint |-> SubSeq(data, 1, 32),
        owner |-> SubSeq(data, 33, 64),
        amount |-> LeValue(SubSeq(data, 65, 72))]

\* mpsc::channel(100): the capacity of a subscription's queue.
QueueCapacity == 100

\* ------------------------------------------------------------------ inputs
\* Account data of the runs, by name.
ListingBytes(name, mint, b) ==
  <<Len(name), 0, 0, 0>> \o name \o Rep(b, 8) \o KeyBytes(mint) \o Rep(b, 75)

TokenBytes(mint, owner, amount) ==
  KeyBytes(mint) \o KeyBytes(owner) \o <<amount, 0, 0, 0, 0, 0, 0, 0>>
    \o <<0, 0, 0, 0>> \o Rep(0, 32) \o <<1>>
    \o <<0, 0, 0, 0>> \o Rep(0, 8) \o Rep(0, 8)
    \o <<0, 0, 0, 0>> \o Rep(0, 32)

Discriminator == Rep(9, DiscLen)

ValidListing == Discriminator \o ListingBytes(<<97, 98>>, "m1", 1)

Payload(name) ==
  CASE name = "empty"      -> << >>
    [] name = "short"      -> Rep(9, 5)
    [] name = "listing"    -> ValidListing
    [] name = "truncated"  -> Take(ValidListing, Len(ValidListing) - 3)
    [] name = "trailing"   -> ValidListing \o <<0, 0>>
    [] name = "listing_b"  -> Discriminator \o ListingBytes(<<99>>, "m2", 2)
    [] name = "tok_u1_m1"  -> TokenBytes("m1", "u1", 10)
    [] name = "tok_u1_del" -> TokenBytes("m1", "u1", 0)
    [] name = "tok_u2_m1"  -> TokenBytes("m1", "u2", 10)
    [] name = "tok_a1"     -> TokenBytes("m1", "a1", 10)
    [] name = "tok_dual"   -> TokenBytes("m3", "u1", 7)

PayloadNames ==
  {"empty", "short", "listing", "truncated", "trailing", "listing_b", "tok_u1_m1",
   "tok_u1_del", "tok_u2_m1", "tok_a1", "tok_dual"}

\* What the two decoders of update_account make of each payload.
Unpacked == [n \in PayloadNames |-> TokenAccountUnpack(Payload(n))]

Decoded == [n \in PayloadNames |-> DecodeListing(Payload(n))]

KeyOf == [n \in KeyNames |-> KeyBytes(n)]

\* bs58::encode of the keys update_account encodes: the event's pubkey, and
\* the owner and mint of an unpacked token account.
PubkeyText == [n \in KeyNames |-> Bs58(KeyBytes(n))]

OwnerText == [n \in PayloadNames |-> IF Unpacked[n].ok THEN Bs58(Unpacked[n].owner) ELSE "unknown"]

MintText == [n \in PayloadNames |-> IF Unpacked[n].ok THEN Bs58(Unpacked[n].mint) ELSE "unknown"]

\* ReplicaAccountInfoVersions: the version tag and, of the account info, the
\* fields update_account reads. pubkey and owner are given by key name, data
\* by payload name.
Ev(version, pubkey, owner, lamports, data) ==
  [version |-> version, pubkey |-> pubkey, owner |-> owner,
   lamports |-> lamports, data |-> data]

Events ==
  { Ev("V0_0_3", "u1", "sys", 1500000000, "empty"),
    Ev("V0_0_3", "a1", "spl", 0, "tok_u1_m1"),
    Ev("V0_0_3", "a1", "spl", 0, "tok_u1_del"),
    Ev("V0_0_3", "u1", "spl", 1500000000, "tok_u2_m1"),
    Ev("V0_0_3", "a1", "spl", 0, "tok_a1"),
    Ev("V0_0_3", "a1", "spl", 0, "tok_dual"),
    Ev("V0_0_3", "a1", "sys", 0, "listing"),
    Ev("V0_0_3", "a1", "sys", 0, "tok_u1_m1"),
    Ev("V0_0_3", "a1", "p1", 0, "listing"),
    Ev("V0_0_3", "a1", "p1", 0, "short"),
    Ev("V0_0_3", "a1", "p1", 0, "truncated"),
    Ev("V0_0_3", "mx", "p1", 0, "listing"),
    Ev("V0_0_3", "a1", "p1", 0, "trailing"),
    Ev("V0_0_1", "u1", "p1", 1500000000, "listing"),
    Ev("V0_0_2", "a1", "spl", 0, "tok_u1_m1") }

\* Config as on_load leaves it: tracked_users is an Option, programs a list.
Configs ==
  { [has_users |-> TRUE, tracked_users |-> <<"u1", "u2">>, programs |-> <<"p1", "spl">>],
    [has_users |-> FALSE, tracked_users |-> << >>, programs |-> <<"p1">>] }

\* A configuration file may name a program more than once.
ReloadConfigs ==
  Configs \cup
    { [has_users |-> FALSE, tracked_users |-> << >>, programs |-> <<"p1", "p1">>] }

Threads == {"t1", "t2"}

\* The subscriptions of the runs: calls of stream_listings.
Subs == {"s1", "s2"}

\* The runs of the plugin: the validator delivers up to MaxEvents events,
\* from two threads, either events about the listings table together with
\* the events of the old versions, or events about the user logs, and up to
\* MaxFaults round trips to the store fail.
ListingFeed ==
  {e \in Events : e.owner = "p1" \/ e.data \in {"listing", "tok_dual"} \/ e.version # "V0_0_3"}

UserFeed == {e \in Events : e.owner # "p1" /\ e.data # "listing"}

\* The runs of the stream service next to the plugin, which is called from
\* one thread: balance events of one user and events with either of two
\* records for one listing account, no round trip failing; balance events
\* with round trips failing; and the events for one listing account that
\* follow QueueCapacity of them.
StreamFeed ==
  { Ev("V0_0_3", "u1", "sys", 1500000000, "empty"),
    Ev("V0_0_3", "a1", "p1", 0, "listing"),
    Ev("V0_0_3", "a1", "p1", 0, "listing_b") }

FaultyFeed == {Ev("V0_0_3", "u1", "sys", 1500000000, "empty")}

BurstFeed == {Ev("V0_0_3", "a1", "p1", 0, "listing")}

\* The runs with repeated on_load: a listing owned by the tracked program,
\* and the same payload owned by the system program.
ReloadFeed ==
  { Ev("V0_0_3", "a1", "p1", 0, "listing"),
    Ev("V0_0_3", "a1", "sys", 0, "listing") }

Feeds ==
  [listings |-> ListingFeed, users |-> UserFeed, stream |-> StreamFeed,
   faulty |-> FaultyFeed, burst |-> BurstFeed, reload |-> ReloadFeed]

\* A run: the events the validator delivers and the threads it calls from,
\* how many events and failed round trips, and how many subscriptions the
\* clients of the stream service open, which of the clients take no message
\* from their stream, and whether other sessions of the database send
\* notifications on the two channels (they count as events).
Host(feed, threads, max_events, max_faults, subs, stalled, foreign) ==
  [feed |-> feed, threads |-> threads, max_events |-> max_events,
   max_faults |-> max_faults, subs |-> subs, stalled |-> stalled,
   foreign |-> foreign]

Hosts ==
  { Host("listings", Threads, MaxEvents, MaxFaults, {}, {}, FALSE),
    Host("users", Threads, MaxEvents, MaxFaults, {}, {}, FALSE) }

\* ------------------------------------------------------------------- state
VARIABLES
  host,         \* the validator of the run: the events it delivers, the threads it calls from
  config,       \* Heimdall.config: has_users, tracked_users
  programs,     \* Heimdall.programs: the tracked program keys, as pushed by on_load
  user_tables,  \* table user_<address> of each tracked user: its rows, oldest insert first
  listings,     \* table listings: a set of rows
  bus,          \* the notifications pg_notify has sent, oldest first
  pc,           \* per thread: the store round trip its invocation makes next
  cur,          \* per thread: the event of its current (or last) invocation
  loc,          \* per thread: token_holdings, nft_holdings read by the token branch, program index
  ret,          \* per thread: what its last invocation returned to the host
  did,          \* per thread: the round trips its current (or last) invocation made, with outcome
  nevents,      \* invocations so far; the next event's slot
  faults,       \* failed round trips so far
  listener,     \* per subscription: the task start_listener, its PgListener and position
  queue,        \* per subscription: the messages in its mpsc channel, oldest first
  rx,           \* per subscription: the receiving end of its channel
  got,          \* per subscription: the messages its client has taken, oldest first
  m_pc, m_tokens, m_mint, m_amount, m_out, \* the merge step run on its own
  w_pc, w_rec, w_msg  \* the upsert and re-fetch of one record run on their own

storeVars == <<user_tables, listings, bus>>

threadVars == <<pc, cur, loc, ret, did>>

streamVars == <<listener, queue, rx, got>>

mergeVars == <<m_pc, m_tokens, m_mint, m_amount, m_out>>

wireVars == <<w_pc, w_rec, w_msg>>

vars == <<host, config, programs, user_tables, listings, bus, pc, cur, loc, ret, did,
          nevents, faults, listener, queue, rx, got,
          m_pc, m_tokens, m_mint, m_amount, m_out, w_pc, w_rec, w_msg>>

\* ----------------------------------------------------------------- helpers
Contains(list, x) == \E i \in 1..Len(list) : list[i] = x

\* lamports as f64 / 1_000_000_000.0, kept as whole SOL and billionths.
SolBalance(lamports) ==
  [whole |-> lamports \div 1000000000, nanos |-> lamports % 1000000000]

\* COALESCE(..., 0) and COALESCE(..., '[]'::jsonb): what an insert carries
\* forward when the table has no row.
EmptySnapshot ==
  [sol_balance |-> [whole |-> 0, nanos |-> 0], token_holdings |-> << >>,
   nft_holdings |-> << >>]

MaxTs(table) ==
  IF table = << >> THEN 0
  ELSE CHOOSE m \in {table[i].timestamp : i \in 1..Len(table)} :
         \A i \in 1..Len(table) : table[i].timestamp <= m

\* ORDER BY timestamp DESC LIMIT 1: the row of the greatest timestamp.
LatestRows(table) ==
  {table[i] : i \in {j \in 1..Len(table) : table[j].timestamp = MaxTs(table)}}

\* The row a carry-forward subselect yields.
PriorRows(table) ==
  IF table = << >> THEN {EmptySnapshot} ELSE LatestRows(table)

\* timestamp DEFAULT CURRENT_TIMESTAMP: the store's clock at the insert, which
\* is taken to tell any two inserts into one table apart.
NextTs(table) == MaxTs(table) + 1

\* Whether a store round trip succeeds.
Outcomes == IF faults < host.max_faults THEN {TRUE, FALSE} ELSE {TRUE}

\* ------------------------------------------------------ update_account: routing
\* A plausible slip: only the oldest version is rejected.
SupportedFromV2(version) == version # "V0_0_1"

Supported(version) == version = "V0_0_3"

AccountPubkey(e) == PubkeyText[e.pubkey]

BalanceApplies(e) ==
  config.has_users /\ Contains(config.tracked_users, AccountPubkey(e))

\* A plausible slip: the owner of the account is not compared to spl_token::ID.
TokenAppliesAnyOwner(e) ==
  /\ config.has_users
  /\ Unpacked[e.data].ok
  /\ Contains(config.tracked_users, OwnerText[e.data])

TokenApplies(e) ==
  /\ config.has_users
  /\ KeyOf[e.owner] = SplTokenId
  /\ Unpacked[e.data].ok
  /\ Contains(config.tracked_users, OwnerText[e.data])

TokenOwner(e) == OwnerText[e.data]

TokenMint(e) == MintText[e.data]

TokenAmount(e) == Unpacked[e.data].amount

\* The body of programs.iter().for_each for program i calls update_listing.
ListingApplies(e, i) ==
  /\ KeyOf[programs[i]] = KeyOf[e.owner]
  /\ Decoded[e.data].ok

\* The first program from index i on for which update_listing is called, or 0.
NextProgram(e, i) ==
  IF \E j \in i..Len(programs) : ListingApplies(e, j)
    THEN CHOOSE j \in i..Len(programs) :
           ListingApplies(e, j) /\ \A k \in i..(j - 1) : ~ListingApplies(e, k)
    ELSE 0

\* Where an invocation stands once the loop over programs is at index i:
\* at the upsert of the next matching program, or at its return of Ok(()).
ListingStep(e, i) ==
  LET j == NextProgram(e, i)
  IN IF j = 0 THEN [pc |-> "returned", pi |-> 0, ret |-> "Ok"]
     ELSE [pc |-> "list_write", pi |-> j, ret |-> "none"]

\* Where an invocation stands after its balance branch.
TokenStep(e) ==
  IF TokenApplies(e) THEN [pc |-> "tok_read", pi |-> 0, ret |-> "none"]
  ELSE ListingStep(e, 1)

\* Where an invocation of a supported version starts.
BalanceStep(e) ==
  IF BalanceApplies(e) THEN [pc |-> "bal_write", pi |-> 0, ret |-> "none"]
  ELSE TokenStep(e)

\* A token branch that returns Err through `?` ends the invocation.
AbortStep == [pc |-> "returned", pi |-> 0, ret |-> "Err"]

NoEvent ==
  [version |-> "none", pubkey |-> "sys", owner |-> "sys", lamports |-> 0,
   data |-> "empty", slot |-> 0]

NoLocal == [tokens |-> << >>, nfts |-> << >>, pi |-> 0]

Continue(t, step) ==
  /\ pc' = [pc EXCEPT ![t] = step.pc]
  /\ ret' = [ret EXCEPT ![t] = step.ret]
  /\ loc' = [loc EXCEPT ![t] = IF step.pc = "returned" THEN NoLocal
                                ELSE [@ EXCEPT !.pi = step.pi]]

Fault(ok) == faults' = faults + (IF ok THEN 0 ELSE 1)

Did(t, what) == did' = [did EXCEPT ![t] = @ \cup {what}]

\* The timestamp of the stored state of a notification's subject: updated_at
\* of the account's listing row, or the greatest timestamp of the user's log;
\* 0 without a stored state.
SubjectClock(account, action) ==
  IF action = "account_update"
    THEN (IF \E r \in listings : r.account = account
            THEN (CHOOSE r \in listings : r.account = account).updated_at
            ELSE 0)
  ELSE IF account \in DOMAIN user_tables THEN MaxTs(user_tables[account])
  ELSE 0

\* serde_json::json!({"account": .., "action": ..}) sent on a channel, and
\* (for the properties only) the payload of the listing event that sent it
\* and, in the runs with subscriptions, the timestamp of the subject's stored
\* state when it was sent.
Notification(channel, account, action, e) ==
  [channel |-> channel, account |-> account, action |-> action,
   data |-> IF action = "account_update" THEN e.data ELSE "empty",
   clock |-> IF host.subs = {} THEN 0 ELSE SubjectClock(account, action)]

\* ---------------------------------------------------------------- the merge
\* tokens.retain(|t| t["mint"] != mint)
RECURSIVE Retain(_, _)
Retain(tokens, mint) ==
  IF tokens = << >> THEN << >>
  ELSE (IF Head(tokens).mint # mint THEN <<Head(tokens)>> ELSE << >>)
         \o Retain(Tail(tokens), mint)

\* A plausible slip: the push without the retain.
MergeWithoutRetain(tokens, mint, amount) ==
  IF amount > 0
    THEN Append(tokens, [mint |-> mint, amount |-> amount])
    ELSE tokens

\* A plausible slip: the push without the test of amount.
MergePushAlways(tokens, mint, amount) ==
  Append(Retain(tokens, mint), [mint |-> mint, amount |-> amount])

\* retain, then push {mint, amount} if amount > 0
MergeTokenHolding(tokens, mint, amount) ==
  IF amount > 0
    THEN Append(Retain(tokens, mint), [mint |-> mint, amount |-> amount])
    ELSE Retain(tokens, mint)

\* ------------------------------------------------------------------- rows
\* A plausible slip: the insert binds the defaults instead of the subselects.
BalanceValuesNoCarry(sol, prev_tokens, prev_nfts) ==
  [sol_balance |-> sol,
   token_holdings |-> EmptySnapshot.token_holdings,
   nft_holdings |-> EmptySnapshot.nft_holdings]

\* The VALUES of the insert of update_user_sol_balance: the new balance, and
\* token_holdings, nft_holdings of the rows its two subselects yield.
BalanceValues(sol, prev_tokens, prev_nfts) ==
  [sol_balance |-> sol,
   token_holdings |-> prev_tokens.token_holdings,
   nft_holdings |-> prev_nfts.nft_holdings]

\* The VALUES of the insert of update_user_token_holding: sol_balance of the
\* row its subselect yields, and the bound token_holdings, nft_holdings.
TokenValues(prev_sol, tokens, nfts) ==
  [sol_balance |-> prev_sol.sol_balance,
   token_holdings |-> tokens,
   nft_holdings |-> nfts]

\* A row of a user table: the inserted values, the timestamp the store gives
\* it, and (for the properties only) the event and branch that inserted it.
UserRow(values, ts, e, branch) ==
  [timestamp |-> ts,
   sol_balance |-> values.sol_balance,
   token_holdings |-> values.token_holdings,
   nft_holdings |-> values.nft_holdings,
   slot |-> e.slot, branch |-> branch, pubkey |-> e.pubkey, owner |-> e.owner,
   data |-> e.data]

\* The columns update_listing binds: the u64 fields cast to i64 for the
\* BIGINT columns, the u8 fields cast to i16 for the SMALLINT columns, the
\* mint as base-58 text; the 128-bit fields (bound as decimal text) and
\* base_price are kept as the bytes decoded.
ListingRow(account, rec, ts) ==
  [account |-> account, name |-> rec.name, seed |-> AsI64(U64Limbs(rec.seed)),
   mint |-> Bs58(rec.mint), funding_goal |-> AsI64(U64Limbs(rec.funding_goal)),
   pool_mint_supply |-> rec.pool_mint_supply,
   funding_raised |-> AsI64(U64Limbs(rec.funding_raised)),
   available_tokens |-> rec.available_tokens, base_price |-> rec.base_price,
   tokens_sold |-> rec.tokens_sold, bump |-> AsI16(rec.bump[1]),
   vault_bump |-> AsI16(rec.vault_bump[1]), mint_bump |-> AsI16(rec.mint_bump[1]),
   updated_at |-> ts]

ListingClock ==
  IF listings = {} THEN 0
  ELSE CHOOSE m \in {r.updated_at : r \in listings} :
         \A r \in listings : r.updated_at <= m

\* A plausible slip: ON CONFLICT (account) DO NOTHING.
UpsertKeepFirst(rows, row) ==
  IF \E r \in rows : r.account = row.account THEN rows ELSE rows \cup {row}

\* A plausible slip: a plain INSERT into a table without the primary key.
InsertListing(rows, row) == rows \cup {row}

\* A plausible slip: the user table is written like the listings table.
OverwriteSnapshot(table, row) == <<row>>

\* INSERT INTO user_<address> ... VALUES (...): one more row, after the others.
AppendSnapshot(table, row) == Append(table, row)

\* INSERT ... ON CONFLICT (account) DO UPDATE SET every column.
UpsertListing(rows, row) ==
  {r \in rows : r.account # row.account} \cup {row}

\* -------------------------------------------------------------------- Init
MergeIdle ==
  /\ m_pc = "off"
  /\ m_tokens = << >>
  /\ m_mint = "m1"
  /\ m_amount = 0
  /\ m_out = << >>

WireIdle ==
  /\ w_pc = "off"
  /\ w_rec = << >>
  /\ w_msg = << >>

\* The stream service with no subscription.
NoListener ==
  [pc |-> "none", since |-> 0, from_account |-> 0, from_user |-> 0, upto |-> 0,
   at |-> 0, out |-> << >>, failed |-> FALSE]

NoSubscription ==
  /\ listener = [s \in Subs |-> NoListener]
  /\ queue = [s \in Subs |-> << >>]
  /\ rx = [s \in Subs |-> "none"]
  /\ got = [s \in Subs |-> << >>]

\* The plugin after on_load with configuration c, under validator h: config
\* and programs set, the listings table and one table per tracked user
\* created, no invocation running.
Loaded(c, h) ==
  /\ host = h
  /\ config = [has_users |-> c.has_users, tracked_users |-> c.tracked_users]
  /\ programs = c.programs
  /\ user_tables = [u \in {config.tracked_users[i] : i \in 1..Len(config.tracked_users)} |-> << >>]
  /\ listings = {}
  /\ bus = << >>
  /\ pc = [t \in Threads |-> "idle"]
  /\ cur = [t \in Threads |-> NoEvent]
  /\ loc = [t \in Threads |-> NoLocal]
  /\ ret = [t \in Threads |-> "none"]
  /\ did = [t \in Threads |-> {}]
  /\ nevents = 0
  /\ faults = 0
  /\ NoSubscription

PluginLoaded == \E c \in Configs, h \in Hosts : Loaded(c, h)

Init == PluginLoaded /\ MergeIdle /\ WireIdle

\* ---------------------------------------------------------- update_account
\* The host calls update_account(account, slot, is_startup) on thread t. An
\* event of version V0_0_1 or V0_0_2 returns AccountsUpdateError at once.
\* Host threads are interchangeable: the call runs on the first free one.
Begin(t) ==
  /\ pc[t] = "idle"
  /\ t \in host.threads
  /\ t = CHOOSE i \in host.threads : pc[i] = "idle"
  /\ nevents < host.max_events
  /\ \E ev \in Feeds[host.feed] :
       LET e == [version |-> ev.version, pubkey |-> ev.pubkey, owner |-> ev.owner,
                 lamports |-> ev.lamports, data |-> ev.data, slot |-> nevents + 1]
       IN /\ cur' = [cur EXCEPT ![t] = e]
          /\ did' = [did EXCEPT ![t] = {}]
          /\ Continue(t, IF Supported(e.version) THEN BalanceStep(e) ELSE AbortStep)
  /\ nevents' = nevents + 1
  /\ UNCHANGED <<config, programs, host, streamVars, storeVars, faults, mergeVars, wireVars>>

\* update_user_sol_balance: the insert. Its result is dropped (let _ =), so
\* the invocation goes on to the notification whether or not it succeeded.
BalWrite(t) ==
  /\ pc[t] = "bal_write"
  /\ LET e == cur[t]
         user == AccountPubkey(e)
         table == user_tables[user]
     IN \E ok \in Outcomes :
          /\ Fault(ok)
          /\ IF ok
               THEN \E pt \in PriorRows(table), pn \in PriorRows(table) :
                      user_tables' = [user_tables EXCEPT ![user] =
                        AppendSnapshot(table, UserRow(BalanceValues(SolBalance(e.lamports), pt, pn),
                                              NextTs(table), e, "balance"))]
               ELSE UNCHANGED user_tables
          /\ Did(t, IF ok THEN "balance_write" ELSE "balance_write_failed")
  /\ pc' = [pc EXCEPT ![t] = "bal_notify"]
  /\ UNCHANGED <<config, programs, host, streamVars, listings, bus, cur, loc, ret, nevents, mergeVars, wireVars>>

\* update_user_sol_balance: pg_notify('user_updates', ..); a failure is logged.
BalNotify(t) ==
  /\ pc[t] = "bal_notify"
  /\ LET e == cur[t]
     IN \E ok \in Outcomes :
          /\ Fault(ok)
          /\ IF ok
               THEN /\ bus' = Append(bus, Notification("user_updates", AccountPubkey(e), "user_update", e))
                    /\ Did(t, "balance_notify")
               ELSE UNCHANGED <<bus, did>>
          /\ Continue(t, TokenStep(e))
  /\ UNCHANGED <<config, programs, host, streamVars, user_tables, listings, cur, nevents, mergeVars, wireVars>>

\* update_user_token_holding: the select of the latest row. Ok(Some(row))
\* yields its two JSON columns, unless try_get fails, which returns Err from
\* update_account; Ok(None) and Err both yield ([], []). The merge follows.
\* (For the properties only, an Err of the select notes whether the table had
\* a row.)
TokRead(t) ==
  /\ pc[t] = "tok_read"
  /\ LET e == cur[t]
         table == user_tables[TokenOwner(e)]
         merged(row) == [tokens |-> MergeTokenHolding(row.token_holdings, TokenMint(e), TokenAmount(e)),
                         nfts |-> row.nft_holdings, pi |-> 0]
     IN \/ \E row \in PriorRows(table) :
             /\ loc' = [loc EXCEPT ![t] = merged(row)]
             /\ pc' = [pc EXCEPT ![t] = "tok_write"]
             /\ Did(t, "token_read")
             /\ UNCHANGED <<ret, faults>>
        \/ /\ faults < host.max_faults
           /\ faults' = faults + 1
           /\ loc' = [loc EXCEPT ![t] = merged(EmptySnapshot)]
           /\ pc' = [pc EXCEPT ![t] = "tok_write"]
           /\ did' = [did EXCEPT ![t] = @ \cup {"token_read_failed"}
                         \cup (IF table # << >> THEN {"prior_snapshot"} ELSE {})]
           /\ UNCHANGED ret
        \/ /\ faults < host.max_faults
           /\ table # << >>
           /\ faults' = faults + 1
           /\ Did(t, "token_row_failed")
           /\ Continue(t, AbortStep)
  /\ UNCHANGED <<config, programs, host, streamVars, storeVars, cur, nevents, mergeVars, wireVars>>

\* update_user_token_holding: the insert; on Err it is logged and nothing is
\* published, on Ok the notification follows.
TokWrite(t) ==
  /\ pc[t] = "tok_write"
  /\ LET e == cur[t]
         user == TokenOwner(e)
         table == user_tables[user]
     IN \E ok \in Outcomes :
          /\ Fault(ok)
          /\ IF ok
               THEN /\ \E ps \in PriorRows(table) :
                         user_tables' = [user_tables EXCEPT ![user] =
                           AppendSnapshot(table, UserRow(TokenValues(ps, loc[t].tokens, loc[t].nfts),
                                                 NextTs(table), e, "token"))]
                    /\ Did(t, "token_write")
                    /\ pc' = [pc EXCEPT ![t] = "tok_notify"]
                    /\ UNCHANGED <<loc, ret>>
               ELSE /\ Did(t, "token_write_failed")
                    /\ Continue(t, ListingStep(e, 1))
                    /\ UNCHANGED user_tables
  /\ UNCHANGED <<config, programs, host, streamVars, listings, bus, cur, nevents, mergeVars, wireVars>>

\* update_user_token_holding: pg_notify('user_updates', ..); a failure is logged.
TokNotify(t) ==
  /\ pc[t] = "tok_notify"
  /\ LET e == cur[t]
     IN \E ok \in Outcomes :
          /\ Fault(ok)
          /\ IF ok
               THEN /\ bus' = Append(bus, Notification("user_updates", TokenOwner(e), "user_update", e))
                    /\ Did(t, "token_notify")
               ELSE UNCHANGED <<bus, did>>
          /\ Continue(t, ListingStep(e, 1))
  /\ UNCHANGED <<config, programs, host, streamVars, user_tables, listings, cur, nevents, mergeVars, wireVars>>

\* update_listing: the upsert; on Err it is logged and nothing is published.
ListWrite(t) ==
  /\ pc[t] = "list_write"
  /\ LET e == cur[t]
         rec == Decoded[e.data]
     IN \E ok \in Outcomes :
          /\ Fault(ok)
          /\ IF ok
               THEN /\ listings' = UpsertListing(listings,
                         ListingRow(AccountPubkey(e), rec, ListingClock + 1))
                    /\ Did(t, "listing_write")
                    /\ pc' = [pc EXCEPT ![t] = "list_notify"]
                    /\ UNCHANGED <<loc, ret>>
               ELSE /\ Did(t, "listing_write_failed")
                    /\ Continue(t, ListingStep(e, loc[t].pi + 1))
                    /\ UNCHANGED listings
  /\ UNCHANGED <<config, programs, host, streamVars, user_tables, bus, cur, nevents, mergeVars, wireVars>>

\* update_listing: pg_notify('account_updates', ..); a failure is logged.
ListNotify(t) ==
  /\ pc[t] = "list_notify"
  /\ LET e == cur[t]
     IN \E ok \in Outcomes :
          /\ Fault(ok)
          /\ IF ok
               THEN /\ bus' = Append(bus, Notification("account_updates", AccountPubkey(e), "account_update", e))
                    /\ Did(t, "listing_notify")
               ELSE UNCHANGED <<bus, did>>
          /\ Continue(t, ListingStep(e, loc[t].pi + 1))
  /\ UNCHANGED <<config, programs, host, streamVars, user_tables, listings, cur, nevents, mergeVars, wireVars>>

\* The host has the result of the invocation; the thread is free again.
Return(t) ==
  /\ pc[t] = "returned"
  /\ pc' = [pc EXCEPT ![t] = "idle"]
  /\ cur' = [cur EXCEPT ![t] = NoEvent]
  /\ ret' = [ret EXCEPT ![t] = "none"]
  /\ did' = [did EXCEPT ![t] = {}]
  /\ UNCHANGED <<config, programs, host, streamVars, storeVars, loc, nevents, faults, mergeVars, wireVars>>

Next ==
  \E t \in Threads :
    \/ Begin(t)
    \/ BalWrite(t)
    \/ BalNotify(t)
    \/ TokRead(t)
    \/ TokWrite(t)
    \/ TokNotify(t)
    \/ ListWrite(t)
    \/ ListNotify(t)
    \/ Return(t)

Spec == Init /\ [][Next]_vars

\* ========================================================== stream service
\* ------------------------------------------------- stream service: the reads
\* A plausible slip: fetch_optional and a default snapshot instead of fetch_one.
FetchUserAssetsOrDefault(account) ==
  IF account \in DOMAIN user_tables /\ user_tables[account] # << >>
    THEN LET r == CHOOSE x \in LatestRows(user_tables[account]) : TRUE
         IN [ok |-> TRUE, address |-> account, sol_balance |-> r.sol_balance,
             token_holdings |-> r.token_holdings, nft_holdings |-> r.nft_holdings,
             updated_at |-> r.timestamp]
    ELSE [ok |-> TRUE, address |-> account, sol_balance |-> EmptySnapshot.sol_balance,
          token_holdings |-> << >>, nft_holdings |-> << >>, updated_at |-> 0]

\* A plausible slip: ORDER BY timestamp without DESC, the oldest row.
FetchUserAssetsOldest(account) ==
  IF account \notin DOMAIN user_tables THEN [ok |-> FALSE]
  ELSE IF user_tables[account] = << >> THEN [ok |-> FALSE]
  ELSE LET r == user_tables[account][1]
       IN [ok |-> TRUE, address |-> account, sol_balance |-> r.sol_balance,
           token_holdings |-> r.token_holdings, nft_holdings |-> r.nft_holdings,
           updated_at |-> r.timestamp]

\* fetch_user_assets(account): the latest row of the user's table as a
\* UserAssets message (updated_at is the row's timestamp); fetch_one is an
\* Err when the table is missing or has no row.
FetchUserAssets(account) ==
  IF account \notin DOMAIN user_tables THEN [ok |-> FALSE]
  ELSE IF user_tables[account] = << >> THEN [ok |-> FALSE]
  ELSE LET r == CHOOSE x \in LatestRows(user_tables[account]) : TRUE
       IN [ok |-> TRUE, address |-> account, sol_balance |-> r.sol_balance,
           token_holdings |-> r.token_holdings, nft_holdings |-> r.nft_holdings,
           updated_at |-> r.timestamp]

\* record.map(|r| proto::Listing {..}): the BIGINT columns cast to u64, the
\* SMALLINT columns cast to u32, the other columns as they are.
ListingMessage(r) ==
  [found |-> TRUE, account |-> r.account, name |-> r.name, seed |-> AsU64(r.seed),
   mint |-> r.mint, funding_goal |-> AsU64(r.funding_goal),
   pool_mint_supply |-> r.pool_mint_supply,
   funding_raised |-> AsU64(r.funding_raised),
   available_tokens |-> r.available_tokens, base_price |-> r.base_price,
   tokens_sold |-> r.tokens_sold, bump |-> AsU32(r.bump),
   vault_bump |-> AsU32(r.vault_bump), mint_bump |-> AsU32(r.mint_bump),
   updated_at |-> r.updated_at]

\* fetch_listing(account): the row of the account as a Listing message, or
\* None.
FetchListing(account) ==
  IF \E r \in listings : r.account = account
    THEN ListingMessage(CHOOSE x \in listings : x.account = account)
    ELSE [found |-> FALSE]

\* proto::StreamResponse { update: Some(Listing(l)) | Some(UserAssets(a)) },
\* and (for the properties only) the place on the bus of the notification
\* it answers.
ListingResponse(l, at) == [of |-> at, listing |-> <<l>>, user_assets |-> << >>]

UserAssetsResponse(a, at) == [of |-> at, listing |-> << >>, user_assets |-> <<a>>]

\* ----------------------------------------------- stream service: the queue
\* A plausible slip: the newest message goes to the front of the queue.
EnqueueFront(q, m) == <<m>> \o q

\* tx.send(m) with room in the channel: m is the last to be received.
Enqueue(q, m) == Append(q, m)

\* A plausible slip: one dispatch loop for all subscriptions, which waits
\* while any queue is full.
AnyQueueFull(s) == \E o \in Subs : rx[o] = "open" /\ Len(queue[o]) >= QueueCapacity

\* tx.send(m).await has to wait: the receiver lives and the channel is full.
QueueFull(s) == rx[s] = "open" /\ Len(queue[s]) >= QueueCapacity

\* -------------------------------------------- stream service: subscriptions
\* The notifications the PgListener of subscription s holds for recv(): those
\* sent on a channel after its LISTEN on that channel, not yet received.
ListenedFrom(s, channel) ==
  IF channel = "account_updates" THEN listener[s].from_account ELSE listener[s].from_user

Pending(s) ==
  {i \in (listener[s].upto + 1)..Len(bus) : i > ListenedFrom(s, bus[i].channel)}

Step(s, l) == listener' = [listener EXCEPT ![s] = l]

\* stream_listings: a channel of capacity QueueCapacity, a task running
\* start_listener with its sender, the receiver returned as the stream.
\* Subscriptions are interchangeable: s2 is the second.
Subscribe(s) ==
  /\ s \in host.subs
  /\ rx[s] = "none"
  /\ \A o \in Subs : rx[o] = "none" => (s = "s1" \/ o = "s2")
  /\ rx' = [rx EXCEPT ![s] = "open"]
  /\ Step(s, [NoListener EXCEPT !.pc = "connect", !.since = Len(bus)])
  /\ UNCHANGED <<config, programs, host, storeVars, threadVars, nevents, faults,
                 queue, got, mergeVars, wireVars>>

\* start_listener: PgListener::connect_with; on Err the task returns.
Connect(s) ==
  /\ listener[s].pc = "connect"
  /\ \E ok \in Outcomes :
       /\ Fault(ok)
       /\ Step(s, [listener[s] EXCEPT !.pc = IF ok THEN "listen_account" ELSE "ended"])
  /\ UNCHANGED <<config, programs, host, storeVars, threadVars, nevents,
                 queue, rx, got, mergeVars, wireVars>>

\* start_listener: listener.listen("account_updates"); on Err the task returns.
ListenAccount(s) ==
  /\ listener[s].pc = "listen_account"
  /\ \E ok \in Outcomes :
       /\ Fault(ok)
       /\ Step(s, IF ok THEN [listener[s] EXCEPT !.pc = "listen_user",
                                                  !.from_account = Len(bus),
                                                  !.upto = Len(bus)]
                   ELSE [listener[s] EXCEPT !.pc = "ended"])
  /\ UNCHANGED <<config, programs, host, storeVars, threadVars, nevents,
                 queue, rx, got, mergeVars, wireVars>>

\* start_listener: listener.listen("user_updates"); on Err the task returns.
ListenUser(s) ==
  /\ listener[s].pc = "listen_user"
  /\ \E ok \in Outcomes :
       /\ Fault(ok)
       /\ Step(s, IF ok THEN [listener[s] EXCEPT !.pc = "recv", !.from_user = Len(bus)]
                   ELSE [listener[s] EXCEPT !.pc = "ended"])
  /\ UNCHANGED <<config, programs, host, storeVars, threadVars, nevents,
                 queue, rx, got, mergeVars, wireVars>>

\* listener.recv().await.ok(): the next notification; on Err the loop ends.
Recv(s) ==
  /\ listener[s].pc = "recv"
  /\ \/ /\ Pending(s) # {}
        /\ LET i == CHOOSE j \in Pending(s) : \A k \in Pending(s) : j <= k
           IN Step(s, [listener[s] EXCEPT !.pc = "fetch", !.at = i, !.upto = i])
        /\ UNCHANGED faults
     \/ /\ faults < host.max_faults
        /\ faults' = faults + 1
        /\ Step(s, [listener[s] EXCEPT !.pc = "ended"])
  /\ UNCHANGED <<config, programs, host, storeVars, threadVars, nevents,
                 queue, rx, got, mergeVars, wireVars>>

\* What the match on payload.action yields for notification n at place at:
\* Ok(Some(response)), or Ok(None).
Response(n, at) ==
  IF n.action = "account_update"
    THEN (IF FetchListing(n.account).found
            THEN <<ListingResponse(FetchListing(n.account), at)>> ELSE << >>)
  ELSE IF n.action = "user_update"
    THEN (IF FetchUserAssets(n.account).ok
            THEN <<UserAssetsResponse(FetchUserAssets(n.account), at)>> ELSE << >>)
  ELSE << >>

\* The body of the loop up to the send: the fetch for the notification's
\* action. Ok(None) and Err are logged and the loop goes on to recv.
Fetch(s) ==
  /\ listener[s].pc = "fetch"
  /\ \E ok \in Outcomes :
       /\ Fault(ok)
       /\ LET out == IF ok THEN Response(bus[listener[s].at], listener[s].at) ELSE << >>
          IN Step(s, IF out = << >> THEN [listener[s] EXCEPT !.pc = "recv", !.at = 0]
                      ELSE [listener[s] EXCEPT !.pc = "send", !.out = out])
  /\ UNCHANGED <<config, programs, host, storeVars, threadVars, nevents,
                 queue, rx, got, mergeVars, wireVars>>

\* tx.send(Ok(response)).await: Err once the receiver is dropped (logged, the
\* loop goes on); with room the response is queued; else the task waits.
Send(s) ==
  /\ listener[s].pc \in {"send", "send_wait"}
  /\ IF rx[s] # "open"
       THEN /\ Step(s, [listener[s] EXCEPT !.pc = "recv", !.at = 0, !.out = << >>,
                                            !.failed = TRUE])
            /\ UNCHANGED queue
       ELSE IF QueueFull(s)
         THEN /\ listener[s].pc = "send"
              /\ Step(s, [listener[s] EXCEPT !.pc = "send_wait"])
              /\ UNCHANGED queue
         ELSE /\ queue' = [queue EXCEPT ![s] = Enqueue(@, listener[s].out[1])]
              /\ Step(s, [listener[s] EXCEPT !.pc = "recv", !.at = 0, !.out = << >>])
  /\ UNCHANGED <<config, programs, host, storeVars, threadVars, nevents, faults,
                 rx, got, mergeVars, wireVars>>

\* The client takes the next message of its stream.
PollNext(s) ==
  /\ s \notin host.stalled
  /\ rx[s] = "open"
  /\ queue[s] # << >>
  /\ got' = [got EXCEPT ![s] = Append(@, Head(queue[s]))]
  /\ queue' = [queue EXCEPT ![s] = Tail(@)]
  /\ UNCHANGED <<config, programs, host, storeVars, threadVars, nevents, faults,
                 listener, rx, mergeVars, wireVars>>

\* A plausible slip: the service keeps a clone of every sender.
SenderKept(s) == FALSE

\* The sender of the channel is owned by the listener task alone (it is moved
\* into start_listener): it is dropped when start_listener returns.
SenderDropped(s) == listener[s].pc = "ended"

\* The client polls its stream when the channel is empty and its sender is
\* dropped: the stream ends, and with it the call.
StreamEnd(s) ==
  /\ s \notin host.stalled
  /\ rx[s] = "open"
  /\ queue[s] = << >>
  /\ SenderDropped(s)
  /\ rx' = [rx EXCEPT ![s] = "closed"]
  /\ UNCHANGED <<config, programs, host, storeVars, threadVars, nevents, faults,
                 listener, queue, got, mergeVars, wireVars>>

\* The client disconnects: the stream, and with it the receiver and the
\* messages still in the channel, is dropped.
Disconnect(s) ==
  /\ rx[s] = "open"
  /\ rx' = [rx EXCEPT ![s] = "dropped"]
  /\ queue' = [queue EXCEPT ![s] = << >>]
  /\ UNCHANGED <<config, programs, host, storeVars, threadVars, nevents, faults,
                 listener, got, mergeVars, wireVars>>

\* What another session may send: a notification for an account without a
\* listing row, and one with an action the service does not know.
ForeignNotifications ==
  { [channel |-> "account_updates", account |-> PubkeyText["mx"],
     action |-> "account_update", data |-> "empty", clock |-> 0],
    [channel |-> "user_updates", account |-> PubkeyText["u1"],
     action |-> "other", data |-> "empty", clock |-> 0] }

\* NOTIFY by another session of the database.
ForeignNotify ==
  /\ host.foreign
  /\ nevents < host.max_events
  /\ nevents' = nevents + 1
  /\ \E n \in ForeignNotifications : bus' = Append(bus, n)
  /\ UNCHANGED <<config, programs, host, user_tables, listings, threadVars, faults,
                 streamVars, mergeVars, wireVars>>

StreamNext ==
  \/ ForeignNotify
  \/ \E t \in Threads :
       \/ Begin(t)
       \/ BalWrite(t)
       \/ BalNotify(t)
       \/ ListWrite(t)
       \/ ListNotify(t)
       \/ Return(t)
  \/ \E s \in Subs :
       \/ Subscribe(s)
       \/ Connect(s)
       \/ ListenAccount(s)
       \/ ListenUser(s)
       \/ Recv(s)
       \/ Fetch(s)
       \/ Send(s)
       \/ PollNext(s)
       \/ StreamEnd(s)
       \/ Disconnect(s)

\* The plugin and the stream service on one store, from the start.
StreamHosts ==
  { Host("stream", {"t1"}, MaxEvents, 0, {"s1"}, {}, FALSE),
    Host("faulty", {"t1"}, MaxEvents, MaxFaults, {"s1"}, {}, TRUE) }

StreamFresh ==
  \E h \in StreamHosts : Loaded(CHOOSE c \in Configs : c.has_users, h)

\* The two after QueueCapacity listing events for one account, each answered
\* by the listener of a subscription whose client has taken no message.
FilledListener ==
  [NoListener EXCEPT !.pc = "recv", !.upto = QueueCapacity]

FilledRow(ts) == ListingRow(PubkeyText["a1"], Decoded["listing"], ts)

StreamFilled ==
  /\ host = Host("burst", {"t1"}, QueueCapacity + MaxEvents, 0, Subs, {"s1"}, FALSE)
  /\ \E c \in Configs :
       /\ c.has_users
       /\ config = [has_users |-> c.has_users, tracked_users |-> c.tracked_users]
       /\ programs = c.programs
  /\ user_tables = [u \in {config.tracked_users[i] : i \in 1..Len(config.tracked_users)} |-> << >>]
  /\ listings = {FilledRow(QueueCapacity)}
  /\ bus = [i \in 1..QueueCapacity |->
              [channel |-> "account_updates", account |-> PubkeyText["a1"],
               action |-> "account_update", data |-> "listing", clock |-> i]]
  /\ pc = [t \in Threads |-> "idle"]
  /\ cur = [t \in Threads |-> NoEvent]
  /\ loc = [t \in Threads |-> NoLocal]
  /\ ret = [t \in Threads |-> "none"]
  /\ did = [t \in Threads |-> {}]
  /\ nevents = QueueCapacity
  /\ faults = 0
  /\ listener = [s \in Subs |-> IF s = "s1" THEN FilledListener ELSE NoListener]
  /\ queue = [s \in Subs |->
                IF s = "s1"
                  THEN [i \in 1..QueueCapacity |-> ListingResponse(
                          ListingMessage(FilledRow(i)), i)]
                  ELSE << >>]
  /\ rx = [s \in Subs |-> IF s = "s1" THEN "open" ELSE "none"]
  /\ got = [s \in Subs |-> << >>]

StreamInit == (StreamFresh \/ StreamFilled) /\ MergeIdle /\ WireIdle

StreamSpec == StreamInit /\ [][StreamNext]_vars

\* A client that is not stalled keeps polling its stream.
ClientPolls == \A s \in Subs : WF_vars(PollNext(s)) /\ WF_vars(StreamEnd(s))

\* The runs in which listeners end: one subscription, balance events of one
\* user, round trips failing, and a client that keeps polling.
ListenerNext ==
  \/ \E t \in Threads :
       \/ Begin(t)
       \/ BalWrite(t)
       \/ BalNotify(t)
       \/ Return(t)
  \/ \E s \in Subs :
       \/ Subscribe(s)
       \/ Connect(s)
       \/ ListenAccount(s)
       \/ ListenUser(s)
       \/ Recv(s)
       \/ Fetch(s)
       \/ Send(s)
       \/ PollNext(s)
       \/ StreamEnd(s)
       \/ Disconnect(s)

ListenerInit ==
  /\ Loaded(CHOOSE c \in Configs : c.has_users,
            Host("faulty", {"t1"}, MaxEvents, MaxFaults, {"s1"}, {}, FALSE))
  /\ MergeIdle
  /\ WireIdle

ListenerSpec == ListenerInit /\ [][ListenerNext]_vars /\ ClientPolls

\* ---------------------------------------------- stream service: properties
\* The responses the listener of s has produced, oldest first: those its
\* client took, those in its queue, and the one it is sending.
Emitted(s) == got[s] \o queue[s] \o listener[s].out

\* The subject of notification n is in the store.
Resolves(n) ==
  \/ n.action = "account_update" /\ \E r \in listings : r.account = n.account
  \/ /\ n.action = "user_update"
     /\ n.account \in DOMAIN user_tables
     /\ user_tables[n.account] # << >>

\* The listener of s has received the notification at place i of the bus.
Received(s, i) ==
  /\ listener[s].pc \notin {"none", "connect", "listen_account"}
  /\ i > ListenedFrom(s, bus[i].channel)
  /\ i <= listener[s].upto

\* Nothing is left for s of what was sent so far: its listener waits in
\* recv() for a notification not yet sent, and its client took every message.
Drained(s) ==
  /\ rx[s] = "open"
  /\ listener[s].pc = "recv"
  /\ Pending(s) = {}
  /\ queue[s] = << >>

\* ------------------------------------------------- the merge step on its own
MergeMints == {"m1", "m2"}

MergeEntries == [mint : MergeMints, amount : {5, 10}]

MergeAmounts == {0, 5, 20}

HoldingsUpTo(n) == UNION {[1..k -> MergeEntries] : k \in 0..n}

MergeInit ==
  /\ PluginLoaded
  /\ m_pc = "ready"
  /\ m_tokens \in HoldingsUpTo(MaxHoldings)
  /\ m_mint \in MergeMints
  /\ m_amount \in MergeAmounts
  /\ m_out = << >>
  /\ WireIdle

MergeApply ==
  /\ m_pc = "ready"
  /\ m_out' = MergeTokenHolding(m_tokens, m_mint, m_amount)
  /\ m_pc' = "done"
  /\ UNCHANGED <<config, programs, host, streamVars, storeVars, threadVars,
                 nevents, faults, m_tokens, m_mint, m_amount, wireVars>>

MergeSpec == MergeInit /\ [][MergeApply]_vars

\* ------------------------------- the upsert and re-fetch of one record
\* The u64 values of the runs, as little-endian bytes: the two top bytes
\* around the sign bit, the six low bytes all 0 or all 255.
WireU64s ==
  {low \o <<a, b>> : low \in {Rep(0, 6), Rep(255, 6)}, a \in {0, 127, 128, 255},
                     b \in {0, 127, 128, 255}}

\* 0, 2^63 and 2^64 - 1.
WireGoals == {Rep(0, 8), Rep(0, 7) \o <<128>>, Rep(255, 8)}

WireBumps == 0..255

WireAccount == PubkeyText["a1"]

\* A decoded record with the given integer fields.
WireRecord(seed, goal, raised, bump) ==
  [Decoded["listing"] EXCEPT !.seed = seed, !.funding_goal = goal,
                             !.funding_raised = raised, !.bump = <<bump>>,
                             !.vault_bump = <<255 - bump>>, !.mint_bump = <<bump>>]

WireInit ==
  /\ Loaded(CHOOSE c \in Configs : c.has_users,
            Host("listings", {}, 0, 0, {}, {}, FALSE))
  /\ MergeIdle
  /\ w_pc = "ready"
  /\ \E seed \in WireU64s, goal \in WireGoals, raised \in WireGoals, bump \in WireBumps :
       w_rec = WireRecord(seed, goal, raised, bump)
  /\ w_msg = << >>

\* update_listing(account, record): the upsert of the bound columns.
WireUpsert ==
  /\ w_pc = "ready"
  /\ listings' = UpsertListing(listings, ListingRow(WireAccount, w_rec, ListingClock + 1))
  /\ w_pc' = "stored"
  /\ UNCHANGED <<config, programs, host, streamVars, user_tables, bus, threadVars,
                 nevents, faults, mergeVars, w_rec, w_msg>>

\* fetch_listing(account): the Listing message of the stored row.
WireFetch ==
  /\ w_pc = "stored"
  /\ w_msg' = <<FetchListing(WireAccount)>>
  /\ w_pc' = "fetched"
  /\ UNCHANGED <<config, programs, host, streamVars, storeVars, threadVars,
                 nevents, faults, mergeVars, w_rec>>

WireNext == WireUpsert \/ WireFetch

WireSpec == WireInit /\ [][WireNext]_vars

\* ------------------------------------------------------- on_load, repeated
\* on_load(config_file, is_reload) on a plugin that is already loaded (it
\* takes &mut self, so no update_account runs meanwhile): the tables are
\* created if they do not exist, every program of the file is pushed onto
\* Heimdall.programs, which is never cleared, and the config is replaced.
OnLoad ==
  /\ \A t \in Threads : pc[t] = "idle"
  /\ \E c \in ReloadConfigs :
       /\ Len(programs) + Len(c.programs) <= MaxPrograms
       /\ programs' = programs \o c.programs
       /\ config' = [has_users |-> c.has_users, tracked_users |-> c.tracked_users]
       /\ user_tables' =
            [u \in DOMAIN user_tables \cup {c.tracked_users[i] : i \in 1..Len(c.tracked_users)} |->
               IF u \in DOMAIN user_tables THEN user_tables[u] ELSE << >>]
  /\ UNCHANGED <<host, streamVars, listings, bus, threadVars, nevents, faults, mergeVars, wireVars>>

ReloadNext ==
  \/ OnLoad
  \/ \E t \in Threads :
       \/ Begin(t)
       \/ ListWrite(t)
       \/ ListNotify(t)
       \/ Return(t)

ReloadInit ==
  /\ \E c \in ReloadConfigs :
       Loaded(c, Host("reload", {"t1"}, MaxEvents, MaxFaults, {}, {}, FALSE))
  /\ MergeIdle
  /\ WireIdle

ReloadSpec == ReloadInit /\ [][ReloadNext]_vars

\* ============================================================== properties
Returned(t) == pc[t] = "returned"

Quiet == \A t \in Threads : pc[t] = "idle"

Tables == DOMAIN user_tables

Rows(u) == 1..Len(user_tables[u])

\* The watch-lists, read off the configuration.
TrackedUser(name) ==
  config.has_users /\ \E i \in 1..Len(config.tracked_users) : config.tracked_users[i] = name

TrackedProgram(name) == \E i \in 1..Len(programs) : programs[i] = name

\* The event is a token-program account whose embedded owner is a tracked user.
TrackedTokenAccount(owner, data) ==
  owner = "spl" /\ Unpacked[data].ok /\ TrackedUser(OwnerText[data])

\* C1: in every branch a notification is published only after the write of
\* that branch, in the same event, succeeded; a failed write publishes none.
C1_PublishOnlyAfterWrite ==
  \A t \in Threads :
    /\ "balance_notify" \in did[t] => "balance_write" \in did[t]
    /\ "token_notify" \in did[t] => "token_write" \in did[t]
    /\ "listing_notify" \in did[t] => "listing_write" \in did[t]

\* The token-holding change that user u's log committed last for a mint, and
\* the balance it committed last.
LastTokenRow(u, i) ==
  /\ user_tables[u][i].branch = "token"
  /\ \A j \in Rows(u) :
       (j > i /\ user_tables[u][j].branch = "token")
         => MintText[user_tables[u][j].data] # MintText[user_tables[u][i].data]

LastBalanceRow(u, i) ==
  /\ user_tables[u][i].branch = "balance"
  /\ \A j \in Rows(u) : j > i => user_tables[u][j].branch # "balance"

HoldsMint(tokens, mint) == \E k \in 1..Len(tokens) : tokens[k].mint = mint

\* C2: when update_account invocations for one user have run concurrently
\* and all store round trips succeeded, the user's current snapshot holds the
\* change of every event: for each mint the amount of the last committed
\* token-holding update (no entry if that amount is 0), and the balance of
\* the last committed balance update.
C2_ConcurrentChangesAllKept ==
  (Quiet /\ faults = 0) =>
    \A u \in Tables : \A cur_row \in LatestRows(user_tables[u]) : \A i \in Rows(u) :
      LET row == user_tables[u][i]
          mint == MintText[row.data]
          amount == Unpacked[row.data].amount
      IN /\ LastTokenRow(u, i) =>
              IF amount > 0
                THEN \E k \in 1..Len(cur_row.token_holdings) :
                       cur_row.token_holdings[k] = [mint |-> mint, amount |-> amount]
                ELSE ~HoldsMint(cur_row.token_holdings, mint)
         /\ LastBalanceRow(u, i) => cur_row.sol_balance = row.sol_balance

\* C3: the current state fetch_user_assets reads for a user is the snapshot
\* of the event with the greatest slot among the events appended to the
\* user's log, whatever the order in which their writes completed.
C3_CurrentIsGreatestSlot ==
  \A u \in Tables : \A i \in Rows(u) :
    (\A j \in Rows(u) : user_tables[u][j].slot <= user_tables[u][i].slot)
      => \E k \in Rows(u) :
           /\ user_tables[u][k].slot = user_tables[u][i].slot
           /\ FetchUserAssets(u).ok
           /\ FetchUserAssets(u).updated_at = user_tables[u][k].timestamp
           /\ FetchUserAssets(u).sol_balance = user_tables[u][k].sol_balance
           /\ FetchUserAssets(u).token_holdings = user_tables[u][k].token_holdings

\* C4: every snapshot a balance update appends has the token_holdings and
\* nft_holdings of the most recent prior snapshot of that user, and every
\* snapshot a token-holding update appends has its sol_balance and
\* nft_holdings (the empty default where the user has no prior snapshot).
C4_CarryForward ==
  \A u \in Tables : \A i \in Rows(u) :
    LET row == user_tables[u][i]
    IN \E prev \in PriorRows(SubSeq(user_tables[u], 1, i - 1)) :
         /\ row.branch = "balance" =>
              /\ row.token_holdings = prev.token_holdings
              /\ row.nft_holdings = prev.nft_holdings
         /\ row.branch = "token" =>
              /\ row.sol_balance = prev.sol_balance
              /\ row.nft_holdings = prev.nft_holdings

\* A balance update appended after a snapshot with holdings, which it kept.
C4_Witness ==
  \E u \in Tables : \E i \in Rows(u) :
    /\ i > 1
    /\ user_tables[u][i].branch = "balance"
    /\ user_tables[u][i - 1].token_holdings # << >>
    /\ user_tables[u][i].token_holdings = user_tables[u][i - 1].token_holdings
    /\ user_tables[u][i].sol_balance # user_tables[u][i - 1].sol_balance

\* C5: an invocation for an event of version V0_0_1 or V0_0_2 has returned an
\* error to the host and has made no store write and published nothing,
\* whatever its address and owner.
C5_UnsupportedVersionRejected ==
  \A t \in Threads :
    cur[t].version \in {"V0_0_1", "V0_0_2"} =>
      /\ Returned(t)
      /\ ret[t] = "Err"
      /\ did[t] = {}

\* Both old versions rejected, one for a tracked user's address owned by a
\* tracked program, one for a tracked user's token account.
C5_Witness ==
  \E t \in Threads, o \in Threads :
    /\ Returned(t) /\ cur[t].version = "V0_0_1"
    /\ TrackedUser(cur[t].pubkey) /\ TrackedProgram(cur[t].owner)
    /\ Returned(o) /\ cur[o].version = "V0_0_2"
    /\ TrackedTokenAccount(cur[o].owner, cur[o].data)

\* C6: an invocation of a supported version that has returned has run every
\* branch that applies to its event, whatever failed in the branches before:
\* the token branch of a tracked user's token account, and the upsert of a
\* tracked program's account whose payload decodes.
C6_BranchesIndependent ==
  \A t \in Threads :
    (Returned(t) /\ cur[t].version = "V0_0_3") =>
      /\ TrackedTokenAccount(cur[t].owner, cur[t].data) =>
           did[t] \cap {"token_read", "token_read_failed", "token_row_failed"} # {}
      /\ (TrackedProgram(cur[t].owner) /\ Decoded[cur[t].data].ok) =>
           did[t] \cap {"listing_write", "listing_write_failed"} # {}

\* C7: an invocation for a tracked program's account whose payload does not
\* decode writes no listing row, publishes no ListingChanged and, once it has
\* returned, has returned success.
C7_DecodeFailureSkipped ==
  \A t \in Threads :
    (cur[t].version = "V0_0_3" /\ TrackedProgram(cur[t].owner) /\ ~Decoded[cur[t].data].ok) =>
      /\ did[t] \cap {"listing_write", "listing_write_failed", "listing_notify"} = {}
      /\ Returned(t) => ret[t] = "Ok"

\* C8: an invocation for a tracked program's account whose payload is the
\* discriminator, a complete record and further bytes writes no listing row
\* and publishes no notification.
C8_TrailingBytesRejected ==
  \A t \in Threads :
    (cur[t].version = "V0_0_3" /\ TrackedProgram(cur[t].owner)
       /\ Decoded[cur[t].data].ok /\ Decoded[cur[t].data].rest # << >>) =>
      did[t] \cap {"listing_write", "listing_write_failed", "listing_notify"} = {}

\* The event matches no watch-list.
NoMatch(e) ==
  /\ ~TrackedUser(e.pubkey)
  /\ ~TrackedTokenAccount(e.owner, e.data)
  /\ ~TrackedProgram(e.owner)

\* An invocation for such an event has returned success at once.
C9_NoMatchNoEffect ==
  \A t \in Threads :
    (cur[t].version = "V0_0_3" /\ NoMatch(cur[t])) =>
      /\ Returned(t)
      /\ ret[t] = "Ok"
      /\ did[t] = {}

\* C9 as stated: an event that matches no watch-list writes nothing,
\* publishes nothing and returns success; and every row a token-account
\* event appends is in the log of the tracked user embedded as its owner.
C9_TokenEventOnlyOwnerLog ==
  /\ C9_NoMatchNoEffect
  /\ \A u \in Tables : \A i \in Rows(u) :
       TrackedTokenAccount(user_tables[u][i].owner, user_tables[u][i].data)
         => u = OwnerText[user_tables[u][i].data]

\* C9 as amended: an event that matches no watch-list writes nothing,
\* publishes nothing and returns success; the token-holding branch of a
\* token-account event appends only to the log of the tracked user embedded
\* as its owner, and the balance branch only to the log of the event's own
\* address.
C9_BranchLogs ==
  /\ C9_NoMatchNoEffect
  /\ \A u \in Tables : \A i \in Rows(u) :
       /\ user_tables[u][i].branch = "token" => u = OwnerText[user_tables[u][i].data]
       /\ user_tables[u][i].branch = "balance" => u = user_tables[u][i].pubkey

\* An unwatched account holding token-account bytes has returned, and a
\* token-account event for a tracked address has appended to both logs.
C9_Witness ==
  /\ \E t \in Threads :
       /\ Returned(t) /\ cur[t].version = "V0_0_3" /\ NoMatch(cur[t])
       /\ Unpacked[cur[t].data].ok
  /\ \E u \in Tables, v \in Tables : \E i \in Rows(u), j \in Rows(v) :
       /\ user_tables[u][i].branch = "token"
       /\ user_tables[v][j].branch = "balance"
       /\ user_tables[u][i].slot = user_tables[v][j].slot

OtherEntries(tokens, mint) ==
  LET Other(t) == t.mint # mint IN SelectSeq(tokens, Other)

\* C10: the merge leaves no earlier entry for mint, keeps every other entry
\* with its value and in its order, and ends with {mint, amount} exactly when
\* amount > 0.
C10_MergeTokenHolding ==
  m_pc = "done" =>
    /\ OtherEntries(m_out, m_mint) = OtherEntries(m_tokens, m_mint)
    /\ IF m_amount > 0
         THEN /\ Len(m_out) = Len(OtherEntries(m_tokens, m_mint)) + 1
              /\ m_out[Len(m_out)] = [mint |-> m_mint, amount |-> m_amount]
         ELSE m_out = OtherEntries(m_tokens, m_mint)

\* merge_token_holding([{m1,10},{m2,5}], m1, 20) = [{m2,5},{m1,20}].
C10_Witness ==
  /\ m_pc = "done"
  /\ m_tokens = <<[mint |-> "m1", amount |-> 10], [mint |-> "m2", amount |-> 5]>>
  /\ m_mint = "m1"
  /\ m_amount = 20
  /\ m_out = <<[mint |-> "m2", amount |-> 5], [mint |-> "m1", amount |-> 20]>>

\* ------------------------------------------------------ the listings table
RowsOf(rows, account) == {r \in rows : r.account = account}

OneRowPerAccount(rows) == \A r, s \in rows : r.account = s.account => r = s

\* The two rows agree in every column but updated_at.
SameRecord(r, s) == [r EXCEPT !.updated_at = 0] = [s EXCEPT !.updated_at = 0]

\* The columns the upsert of thread t's invocation binds.
BoundRow(t) == ListingRow(AccountPubkey(cur[t]), Decoded[cur[t].data], 0)

\* Thread t commits its upsert in this step.
CommitsListing(t) ==
  pc[t] = "list_write" /\ pc'[t] = "list_notify"

\* C11: the listings table holds at most one row per account, and it changes
\* only by an upsert committing, after which the row of that account has, in
\* every column but updated_at, the values that upsert bound, and the rows of
\* the other accounts are as they were.
C11_OneRowOfLastUpsert ==
  [][/\ OneRowPerAccount(listings')
     /\ listings' # listings => \E t \in Threads : CommitsListing(t)
     /\ \A t \in Threads :
          CommitsListing(t) =>
            \E r \in listings' :
              /\ SameRecord(r, BoundRow(t))
              /\ RowsOf(listings', r.account) = {r}
              /\ listings' \ {r} = listings \ RowsOf(listings, r.account)]_vars

\* Two invocations have upserted different records for one account, which
\* has one row, written by the later of the two.
C11_Witness ==
  /\ \E t, o \in Threads :
       /\ {"listing_write"} \subseteq (did[t] \cap did[o])
       /\ BoundRow(t).account = BoundRow(o).account
       /\ BoundRow(t) # BoundRow(o)
       /\ \E r \in listings : SameRecord(r, BoundRow(t)) /\ r.updated_at >= 2
  /\ OneRowPerAccount(listings)

\* C12: an upsert of the record the account's row already holds leaves
\* exactly one row for the account, with the same values in every column but
\* updated_at, and an updated_at not less than before.
C12_UpsertIdempotent ==
  [][\A t \in Threads :
       (CommitsListing(t) /\ \E r \in listings : SameRecord(r, BoundRow(t))) =>
         \E r \in listings, s \in listings' :
           /\ r.account = BoundRow(t).account
           /\ RowsOf(listings', r.account) = {s}
           /\ SameRecord(r, s)
           /\ s.updated_at >= r.updated_at]_vars

\* Two invocations have upserted the same record for one account.
C12_Witness ==
  \E t, o \in Threads :
    /\ t # o
    /\ {"listing_write"} \subseteq (did[t] \cap did[o])
    /\ BoundRow(t) = BoundRow(o)
    /\ \E r \in listings :
         /\ RowsOf(listings, r.account) = {r}
         /\ SameRecord(r, BoundRow(t))
         /\ r.updated_at >= 2

\* ---------------------------------------------------------- the user logs
IsPrefix(a, b) == Len(a) <= Len(b) /\ SubSeq(b, 1, Len(a)) = a

\* C13: every step of the ingestion leaves each user's log as it was or adds
\* exactly one row after the rows it had, which stay as they were.
C13_LogAppendOnly ==
  [][\A u \in DOMAIN user_tables :
       /\ u \in DOMAIN user_tables'
       /\ IsPrefix(user_tables[u], user_tables'[u])
       /\ Len(user_tables'[u]) <= Len(user_tables[u]) + 1]_vars

\* A log has taken a row of each branch, one after the other.
C13_Witness ==
  \E u \in Tables :
    /\ Len(user_tables[u]) >= 2
    /\ {user_tables[u][i].branch : i \in Rows(u)} = {"balance", "token"}

\* ------------------------------------------------------- the stream service
\* The part of the stream service's state that belongs to subscription s.
StreamOf(s) == <<listener[s], queue[s], rx[s], got[s]>>

\* The messages of sequence msgs that answer the notification at place i.
AnswersTo(msgs, i) == {k \in 1..Len(msgs) : msgs[k].of = i}

\* The message is of the kind that matches the notification's action.
KindMatches(m, n) ==
  /\ n.action = "account_update" => m.listing # << >> /\ m.user_assets = << >>
  /\ n.action = "user_update" => m.user_assets # << >> /\ m.listing = << >>

\* C14: a listener comes to wait in send only when the queue of its own
\* subscription is full; a step of one subscription (its attaching included)
\* leaves the listener, queue, receiver and deliveries of every other one as
\* they were; and while the queue of another subscription is full, a client
\* whose subscription has nothing left to deliver has taken exactly one
\* message for each notification its listener received.
C14_FanOutIsolation ==
  [][/\ \A s \in Subs :
          (listener[s].pc # "send_wait" /\ listener'[s].pc = "send_wait") =>
            Len(queue[s]) = QueueCapacity /\ rx[s] = "open"
     /\ \A s, o \in Subs :
          (s # o /\ StreamOf(s)' # StreamOf(s)) => StreamOf(o)' = StreamOf(o)
     /\ \A s, o \in Subs :
          (s # o /\ Len(queue'[o]) = QueueCapacity /\ Drained(s)') =>
            \A i \in 1..Len(bus') :
              Received(s, i)' => Cardinality(AnswersTo(got'[s], i)) = 1]_vars

\* The listener of a subscription waits with a message for room in its full
\* queue, and the client of another subscription, attached later, has taken
\* the message for a later event.
C14_Witness ==
  \E s, o \in Subs :
    /\ s # o
    /\ listener[s].pc = "send_wait"
    /\ Len(queue[s]) = QueueCapacity
    /\ rx[s] = "open"
    /\ listener[o].since >= QueueCapacity
    /\ Drained(o)
    /\ \E k \in 1..Len(got[o]) : got[o][k].of > listener[s].at

\* C15: the loop of a listener never waits for room in the queue of its
\* subscription.
C15_FullQueueNeverWaits ==
  \A s \in Subs : listener[s].pc # "send_wait"

\* C16: once a send has failed because the client has disconnected, the
\* listener task of the subscription takes no further notification.
C16_DisconnectedListenerStops ==
  \A s \in Subs :
    listener[s].failed => listener[s].pc \notin {"fetch", "send", "send_wait"}

\* C17: once nothing is left to deliver to a subscription, its client has
\* taken exactly one message, of the matching kind, for every notification
\* that was sent after the subscription was made, was received by a listener
\* of the service, and whose subject is in the store.
C17_EverySubscriberServed ==
  \A s \in Subs :
    Drained(s) =>
      \A i \in 1..Len(bus) :
        (/\ i > listener[s].since
         /\ \E o \in Subs : Received(o, i)
         /\ Resolves(bus[i])) =>
          /\ Cardinality(AnswersTo(got[s], i)) = 1
          /\ \A k \in AnswersTo(got[s], i) : KindMatches(got[s][k], bus[i])

\* The Listing message with the values the event behind notification n wrote.
WrittenBy(n) ==
  ListingMessage(ListingRow(n.account, Decoded[n.data], 0))

\* C18: every Listing message produced for a subscription has, in every
\* field but updated_at, the values written by the event whose notification
\* it answers, and the messages are produced in the order of the events.
C18_ListingMessageOfEvent ==
  \A s \in Subs :
    LET msgs == Emitted(s)
    IN /\ \A k \in 1..Len(msgs) :
            (msgs[k].listing # << >> /\ Decoded[bus[msgs[k].of].data].ok) =>
              [msgs[k].listing[1] EXCEPT !.updated_at = 0] = WrittenBy(bus[msgs[k].of])
       /\ \A k, l \in 1..Len(msgs) : k < l => msgs[k].of < msgs[l].of

\* C19: of two messages a client has taken for one subject, the one taken
\* first answers the notification sent first.
C19_FifoPerSubject ==
  \A s \in Subs :
    \A k, l \in 1..Len(got[s]) :
      (k < l /\ bus[got[s][k].of].account = bus[got[s][l].of].account
             /\ bus[got[s][k].of].channel = bus[got[s][l].of].channel) =>
        got[s][k].of < got[s][l].of

\* A client has taken two messages for one subject.
C19_Witness ==
  \E s \in Subs :
    \E k, l \in 1..Len(got[s]) :
      /\ k < l
      /\ bus[got[s][k].of].account = bus[got[s][l].of].account
      /\ bus[got[s][k].of].channel = bus[got[s][l].of].channel
      /\ got[s][k].of # got[s][l].of

\* C20: when a listener handles a notification whose subject is not in the
\* store, or whose action it does not know, it produces no message, the
\* queue, the receiver and the deliveries stay as they were, and it goes on
\* to receive the next notification.
C20_MissDropped ==
  [][\A s \in Subs :
       (/\ listener[s].pc = "fetch"
        /\ listener'[s] # listener[s]
        /\ ~Resolves(bus[listener[s].at])) =>
         /\ listener'[s].pc = "recv"
         /\ listener'[s].out = << >>
         /\ queue' = queue
         /\ rx' = rx
         /\ got' = got]_vars

\* A listener has handled a notification for a user without a snapshot and
\* one with an unknown action, produced nothing, and waits for the next.
C20_Witness ==
  \E s \in Subs :
    /\ rx[s] = "open"
    /\ listener[s].pc = "recv"
    /\ Emitted(s) = << >>
    /\ \E i, j \in 1..Len(bus) :
         /\ Received(s, i) /\ Received(s, j)
         /\ ~Resolves(bus[i]) /\ ~Resolves(bus[j])
         /\ bus[i].action = "user_update"
         /\ bus[j].action = "other"

\* ------------------------------------------------------------ token holdings
MintsOf(tokens) == {tokens[k].mint : k \in 1..Len(tokens)}

OneEntryPerMint(tokens) ==
  \A k, l \in 1..Len(tokens) : tokens[k].mint = tokens[l].mint => k = l

\* C21: in every row of every user table, token_holdings has at most one
\* entry per mint and no entry of amount 0.
C21_HoldingsKeyedNoZero ==
  \A u \in Tables :
    \A i \in Rows(u) :
      LET tokens == user_tables[u][i].token_holdings
      IN /\ OneEntryPerMint(tokens)
         /\ \A k \in 1..Len(tokens) : tokens[k].amount > 0

\* A user's log holds a snapshot with a holding of a mint and, appended
\* after it by a second token update of that mint, either a snapshot that
\* holds the mint again or, the amount being 0, one that holds it no more.
C21_Witness ==
  \E u \in Tables :
    \E i, j \in Rows(u) :
      /\ i < j
      /\ user_tables[u][i].branch = "token"
      /\ user_tables[u][j].branch = "token"
      /\ MintsOf(user_tables[u][i].token_holdings) # {}
      /\ MintText[user_tables[u][j].data] \in MintsOf(user_tables[u][i].token_holdings)
      /\ Unpacked[user_tables[u][j].data].amount = 0
      /\ user_tables[u][j].token_holdings = << >>

\* C22: an invocation whose read of the latest snapshot failed while the
\* user had a snapshot has appended no snapshot and published nothing in
\* its token branch.
C22_ReadErrorAppendsNothing ==
  \A t \in Threads :
    {"token_read_failed", "prior_snapshot"} \subseteq did[t] =>
      did[t] \cap {"token_write", "token_notify"} = {}

\* C23: an invocation commits at most one upsert and sends at most one
\* notification in its listing branch: none that is at an upsert has
\* committed one, and none that is at a notification has sent one.
C23_OneUpsertPerEvent ==
  \A t \in Threads :
    /\ pc[t] = "list_write" => "listing_write" \notin did[t]
    /\ pc[t] = "list_notify" => "listing_notify" \notin did[t]

\* ------------------------------------------------- freshness of the messages
\* The timestamp of the stored state a message carries.
MessageClock(m) ==
  IF m.listing # << >> THEN m.listing[1].updated_at ELSE m.user_assets[1].updated_at

SameSubject(m, o) ==
  /\ bus[m.of].account = bus[o.of].account
  /\ bus[m.of].action = bus[o.of].action

\* The message at place k is the last of msgs for its subject.
LastForSubject(msgs, k) ==
  \A l \in (k + 1)..Len(msgs) : ~SameSubject(msgs[k], msgs[l])

\* The message is what a re-fetch of its subject yields now.
IsCurrent(m) == Response(bus[m.of], m.of) = <<m>>

NotOlderThanPublished(s) ==
  \A k \in 1..Len(Emitted(s)) :
    MessageClock(Emitted(s)[k]) >= bus[Emitted(s)[k].of].clock

LastIsCurrent(s) ==
  \A k \in 1..Len(got[s]) : LastForSubject(got[s], k) => IsCurrent(got[s][k])

C25_EndedListenerEndsStream ==
  \A s \in Subs :
    (listener[s].pc = "ended" /\ rx[s] = "open" /\ s \notin host.stalled)
      ~> (rx[s] # "open")

\* A listener that ended after producing a message, whose client took the
\* message and then saw the stream end.
C25_Witness ==
  \E s \in Subs :
    /\ listener[s].pc = "ended"
    /\ rx[s] = "closed"
    /\ got[s] # << >>

\* -------------------------------------------------- integers on the wire
\* The u32 of the wire that holds the u8 value b.
U32Of(b) == [lo |-> b, hi |-> 0]

\* C26: the Listing message produced by the re-fetch after the upsert of a
\* decoded record has the record's seed, funding_goal and funding_raised
\* as u64 and its bump, vault_bump and mint_bump.
C26_IntegersRoundTrip ==
  w_pc = "fetched" =>
    /\ w_msg[1].found
    /\ w_msg[1].seed = U64Limbs(w_rec.seed)
    /\ w_msg[1].funding_goal = U64Limbs(w_rec.funding_goal)
    /\ w_msg[1].funding_raised = U64Limbs(w_rec.funding_raised)
    /\ w_msg[1].bump = U32Of(w_rec.bump[1])
    /\ w_msg[1].vault_bump = U32Of(w_rec.vault_bump[1])
    /\ w_msg[1].mint_bump = U32Of(w_rec.mint_bump[1])

\* A record with seed 2^64 - 1, funding_goal 2^63 and bump 255, stored with
\* negative seed and funding_goal, re-fetched with the values decoded.
C26_Witness ==
  /\ w_pc = "fetched"
  /\ w_rec.seed = Rep(255, 8)
  /\ w_rec.funding_goal = Rep(0, 7) \o <<128>>
  /\ w_rec.bump = <<255>>
  /\ \E r \in listings : r.seed.hi < 0 /\ r.funding_goal.hi < 0 /\ r.bump = 255
  /\ w_msg[1].seed = <<65535, 65535, 65535, 65535>>
  /\ w_msg[1].funding_goal = <<0, 0, 0, 32768>>
  /\ w_msg[1].bump = U32Of(255)

====
